---- MODULE Spec2Model ----
\* Verification-code issuance and redemption (generate-code / verify-code) of the
\* Lhyst Netlify functions, against the Supabase REST store and the e-mail
\* providers.  Every handler invocation is a process that advances from one
\* `await fetch(...)` to the next; the store executes one request atomically.
\* An `await fetch(...)` resolves with a response that is ok or not ok, or it
\* rejects, and the handler's catch answers 500.  A store request that is not
\* answered ok leaves the store unchanged; any request may fail either way.
\* Beside them: the feedback relay, the create-checkout-session handler in its
\* two texts, and the asset-caching service worker in its two cache versions.
EXTENDS Integers, Sequences, FiniteSets, TLC

\* ---------------------------------------------------------------- bounds
MaxRows == 2

\* ------------------------------------------------------------ invocations
\* Handler instances that can be running at the same time.
Verifiers == {1, 2}
Issuers == {1}

\* --------------------------------------------------------------- strings
\* A string is a sequence of one-character strings.
Lower(c) == IF c = "A" THEN "a" ELSE IF c = "B" THEN "b" ELSE c

\* Mutant: the letters keep their case.
ToLowerCaseNot(s) == s

ToLowerCase(s) == [i \in 1..Len(s) |-> Lower(s[i])]

RECURSIVE TrimStart(_)
TrimStart(s) == IF s # <<>> /\ Head(s) = " " THEN TrimStart(Tail(s)) ELSE s

RECURSIVE TrimEnd(_)
TrimEnd(s) == IF s # <<>> /\ s[Len(s)] = " " THEN TrimEnd(SubSeq(s, 1, Len(s) - 1)) ELSE s

Trim(s) == TrimEnd(TrimStart(s))

Digit(d) == CASE d = 0 -> "0" [] d = 1 -> "1" [] d = 2 -> "2" [] d = 3 -> "3"
              [] d = 4 -> "4" [] d = 5 -> "5" [] d = 6 -> "6" [] d = 7 -> "7"
              [] d = 8 -> "8" [] d = 9 -> "9"

RECURSIVE NumberToString(_)
NumberToString(n) == IF n < 10 THEN <<Digit(n)>> ELSE Append(NumberToString(n \div 10), Digit(n % 10))

\* Date.prototype.toISOString and new Date(iso).getTime(): an ISO timestamp
\* carries the instant to the millisecond.
ToISOString(ms) == [iso |-> ms]
GetTime(d) == d.iso

\* What an `await fetch(...)` comes to.
Fetch == {"ok", "notok", "rejected"}

\* What the catch block logs with console.error: the rejection of a fetch, or
\* the ReferenceError of a read of an undeclared variable.
FetchFailed == "TypeError: fetch failed"
NowNotDefined == "ReferenceError: now is not defined"

\* ---------------------------------------------------------------- inputs
\* Values Math.floor(100000 + Math.random() * 900000) can take.
CodePool == {100000, 482913}

\* Requests to verify-code: the method, the JSON body, and whether SUPABASE_URL
\* and SUPABASE_SERVICE_ROLE_KEY are set.
VerifyRequest(method, email, code, password, plan, configured) ==
    [method |-> method, email |-> email, code |-> code, password |-> password,
     plan |-> plan, configured |-> configured]

VerifyRequests ==
    LET c1 == NumberToString(100000)
        c2 == NumberToString(482913)
    IN { VerifyRequest("POST", <<"a">>, c2, "x", "pro", TRUE),
         VerifyRequest("POST", <<"a">>, c1, "x", "pro", TRUE),
         VerifyRequest("POST", <<"A", " ">>, Append(c2, " "), "x", "", TRUE),
         VerifyRequest("POST", <<"b">>, c2, "x", "pro", TRUE),
         VerifyRequest("POST", <<" ">>, c2, "x", "pro", TRUE),
         VerifyRequest("POST", <<"a">>, <<" ">>, "x", "pro", TRUE),
         VerifyRequest("POST", <<"a">>, c2, "", "pro", TRUE),
         VerifyRequest("POST", <<"a">>, c2, "x", "pro", FALSE),
         VerifyRequest("GET", <<"a">>, c2, "x", "pro", TRUE) }

\* Requests to generate-code; codes are issued to one address, and verify-code
\* is also asked for an address nothing was issued to.
GenerateRequest(method, email, configured) ==
    [method |-> method, email |-> email, configured |-> configured]

GenerateRequests ==
    { GenerateRequest("POST", <<"a">>, TRUE),
      GenerateRequest("POST", <<"A", " ">>, TRUE),
      GenerateRequest("POST", <<" ">>, TRUE),
      GenerateRequest("POST", <<"a">>, FALSE),
      GenerateRequest("GET", <<"a">>, TRUE) }

\* The requests of the runs in which invocations overlap: one e-mail address,
\* so that every invocation meets every other on the same rows.
RaceVerifyRequests ==
    {r \in VerifyRequests : r.method = "POST" /\ r.configured /\ r.password # ""
                            /\ Trim(ToLowerCase(r.email)) = <<"a">> /\ Trim(r.code) # <<>>}

RaceGenerateRequests ==
    {r \in GenerateRequests : r.method = "POST" /\ r.configured /\ r.email = <<"a">>}

ExpiryMs == 60 * 60 * 1000
TrialMs == 14 * 24 * 60 * 60 * 1000

\* The instants at which a request is served: the start, one hour later (the
\* expiry of a code issued at the start, to the millisecond), and just after.
Instants == {0, ExpiryMs, ExpiryMs + 1}

\* ----------------------------------------------------------------- state
VARIABLES
    codes,      \* table email_codes: sequence of rows, in insertion order
    users,      \* auth users: set of [id, email], one per e-mail
    profiles,   \* table profiles: set of rows, primary key id
    clock,      \* Date.now()
    ver,        \* verify-code invocations in flight
    gen,        \* generate-code invocations in flight
    fb,         \* the feedback invocation in flight
    co,         \* the create-checkout-session invocation in flight
    stripe,     \* the checkout-session requests sent to Stripe, in order
    sw,         \* the browser: its Cache Storage, its service worker, the site it loads
    response,   \* the response returned by the step just taken, if it returned one
    redeemed    \* history: per row of codes, the 200 answers of verify-code for it

vars == <<codes, users, profiles, clock, ver, gen, fb, co, stripe, sw, response, redeemed>>

\* process.env PRICE_*: no price ID is set.
NoPrices == [PRICE_PRO_YEARLY |-> "", PRICE_PRO_MONTHLY |-> "",
             PRICE_BASIC_YEARLY |-> "", PRICE_BASIC_MONTHLY |-> ""]

NoResponse == [handler |-> "", status |-> 0, error |-> "", logged |-> "", note |-> <<>>,
               method |-> "", password |-> "", configured |-> FALSE,
               rawEmail |-> <<>>, email |-> <<>>, code |-> <<>>, plan |-> "", now |-> 0,
               row |-> 0, attempts |-> <<>>,
               variant |-> "", json |-> "", frequency |-> "", prices |-> NoPrices,
               priceId |-> "", sent |-> 0,
               env |-> [resendKey |-> FALSE, sendgridKey |-> FALSE, mailgunKey |-> FALSE,
                        mailgunDomain |-> FALSE, fromEmail |-> FALSE]]

\* ------------------------------------------------------------ store (REST)
\* Mutant: the lookup without its code filter.
SelectUnusedByEmail(email, code) ==
    {i \in 1..Len(codes) : codes[i].email = email /\ codes[i].used = FALSE}

\* GET /rest/v1/email_codes?email=eq.E&code=eq.C&used=eq.false
SelectUnused(email, code) ==
    {i \in 1..Len(codes) : codes[i].email = email /\ codes[i].code = code /\ codes[i].used = FALSE}

\* Mutant: the PATCH changes no row.
PatchUsedNothing(email, code) == codes

\* Mutant: the PATCH flips the flag.
PatchUsedFlip(email, code) ==
    [i \in 1..Len(codes) |->
        IF codes[i].email = email /\ codes[i].code = code
        THEN [codes[i] EXCEPT !.used = ~@]
        ELSE codes[i]]

\* PATCH /rest/v1/email_codes?email=eq.E&code=eq.C  {used: true}
PatchUsed(email, code) ==
    [i \in 1..Len(codes) |->
        IF codes[i].email = email /\ codes[i].code = code
        THEN [codes[i] EXCEPT !.used = TRUE]
        ELSE codes[i]]

\* GET /auth/v1/admin/users?email=E
UsersByEmail(email) == {u \in users : u.email = email}

\* POST /auth/v1/admin/users: the id the store gives the new user.
NewUser(email) == [id |-> <<"uid", email>>, email |-> email]

\* POST /rest/v1/profiles with Prefer: resolution=merge-duplicates
UpsertProfile(id, plan, trialEnd) ==
    {r \in profiles : r.id # id} \cup {[id |-> id, plan |-> plan, trial_end_at |-> trialEnd]}

\* GET /rest/v1/email_codes?email=eq.E&used=eq.false
SelectPending(email) ==
    {i \in 1..Len(codes) : codes[i].email = email /\ codes[i].used = FALSE}

\* Mutant: the insert retires the earlier rows of the e-mail.
InsertCodeInvalidating(email, code, expiresAt) ==
    Append([i \in 1..Len(codes) |->
                IF codes[i].email = email THEN [codes[i] EXCEPT !.used = TRUE] ELSE codes[i]],
           [email |-> email, code |-> code, expires_at |-> expiresAt, used |-> FALSE])

\* POST /rest/v1/email_codes
InsertCode(email, code, expiresAt) ==
    Append(codes, [email |-> email, code |-> code, expires_at |-> expiresAt, used |-> FALSE])

\* ---------------------------------------------------------- verify-code
VerIdle == [pc |-> "idle", method |-> "", password |-> "", configured |-> FALSE,
            rawEmail |-> <<>>, email |-> <<>>, code |-> <<>>, plan |-> "", now |-> 0,
            codeRow |-> 0, userId |-> <<>>, status |-> 0, error |-> "", logged |-> ""]

VerReturn(v, status, error) == [v EXCEPT !.pc = "done", !.status = status, !.error = error]

\* Lines 161-167: the catch block.
VerCatch(v, thrown) ==
    [VerReturn(v, 500, "An unexpected error occurred") EXCEPT !.logged = thrown]

\* A handler that returned is gone: its locals end, its response goes out.
VerSettle(p, v) ==
    /\ ver' = [ver EXCEPT ![p] = IF v.pc = "done" THEN VerIdle ELSE v]
    /\ response' = IF v.pc = "done"
                   THEN [NoResponse EXCEPT !.handler = "verify", !.status = v.status,
                            !.error = v.error, !.logged = v.logged, !.method = v.method,
                            !.password = v.password, !.configured = v.configured,
                            !.rawEmail = v.rawEmail, !.email = v.email,
                            !.code = v.code, !.plan = v.plan, !.now = v.now,
                            !.row = v.codeRow]
                   ELSE NoResponse

\* Mutant: the password is not required.
MissingFieldsButPassword(email, code, password) == email = <<>> \/ code = <<>>

\* Line 26: !email || !code || !password.
MissingFields(email, code, password) == email = <<>> \/ code = <<>> \/ password = ""

\* Lines 13-39: method guard, body parsing, validation, configuration.
VerifyStart(p, method, rawEmail, rawCode, password, rawPlan, configured) ==
    /\ ver[p].pc = "idle"
    /\ LET email == Trim(ToLowerCase(rawEmail))
           code == Trim(rawCode)
           plan == IF rawPlan = "" THEN "basic" ELSE rawPlan
           v == [ver[p] EXCEPT !.method = method, !.password = password,
                               !.configured = configured, !.rawEmail = rawEmail,
                               !.email = email, !.code = code, !.plan = plan]
       IN VerSettle(p,
            IF method # "POST"
            THEN VerReturn([ver[p] EXCEPT !.method = method], 405, "Method Not Allowed")
            ELSE IF MissingFields(email, code, password)
                 THEN VerReturn(v, 400, "Email, code and password are required")
            ELSE IF ~configured
                 THEN VerReturn(v, 500, "Supabase configuration is missing")
            ELSE [v EXCEPT !.pc = "lookup"])
    /\ UNCHANGED <<co, stripe, sw, fb, codes, users, profiles, clock, gen, redeemed>>

\* Mutant: the expiry comparison the wrong way round.
VerifyExpiryReversed(v, i, now) ==
    IF GetTime(codes[i].expires_at) > now
    THEN VerReturn([v EXCEPT !.codeRow = i, !.now = now], 400, "Verification code has expired")
    ELSE [v EXCEPT !.pc = "mark", !.codeRow = i, !.now = now]

\* Mutant: a code presented at the instant of its expiry is refused.
VerifyExpiryStrict(v, i, now) ==
    IF GetTime(codes[i].expires_at) <= now
    THEN VerReturn([v EXCEPT !.codeRow = i, !.now = now], 400, "Verification code has expired")
    ELSE [v EXCEPT !.pc = "mark", !.codeRow = i, !.now = now]

\* Lines 66-74: codes[0] and its expiry against Date.now().
VerifyExpiry(v, i, now) ==
    IF GetTime(codes[i].expires_at) < now
    THEN VerReturn([v EXCEPT !.codeRow = i, !.now = now], 400, "Verification code has expired")
    ELSE [v EXCEPT !.pc = "mark", !.codeRow = i, !.now = now]

\* Lines 41-74: fetch the unused rows, take codes[0], compare its expiry.
\* The request carries no order, so any matching row may come first.
VerifyLookup(p, res) ==
    /\ ver[p].pc = "lookup"
    /\ LET found == SelectUnused(ver[p].email, ver[p].code) IN
       IF res = "rejected" THEN VerSettle(p, VerCatch(ver[p], FetchFailed))
       ELSE IF res = "notok" THEN VerSettle(p, VerReturn(ver[p], 500, "Failed to verify code"))
       ELSE IF found = {}
            THEN VerSettle(p, VerReturn(ver[p], 400, "Invalid or expired verification code"))
       ELSE \E i \in found : VerSettle(p, VerifyExpiry(ver[p], i, clock))
    /\ UNCHANGED <<co, stripe, sw, fb, codes, users, profiles, clock, gen, redeemed>>

\* Mutant: the handler goes on to create the user whatever the PATCH came to.
VerifyMarkUnchecked(p, res) ==
    /\ ver[p].pc = "mark"
    /\ codes' = IF res = "ok" THEN PatchUsed(ver[p].email, ver[p].code) ELSE codes
    /\ VerSettle(p, [ver[p] EXCEPT !.pc = "create"])
    /\ UNCHANGED <<co, stripe, sw, fb, users, profiles, clock, gen, redeemed>>

\* Lines 76-96: mark the code as used.
VerifyMark(p, res) ==
    /\ ver[p].pc = "mark"
    /\ IF res = "ok"
       THEN /\ codes' = PatchUsed(ver[p].email, ver[p].code)
            /\ VerSettle(p, [ver[p] EXCEPT !.pc = "create"])
       ELSE /\ codes' = codes
            /\ VerSettle(p, IF res = "rejected" THEN VerCatch(ver[p], FetchFailed)
                            ELSE VerReturn(ver[p], 500, "Failed to mark code as used"))
    /\ UNCHANGED <<co, stripe, sw, fb, users, profiles, clock, gen, redeemed>>

\* Lines 98-108 and 130-133: create the user; a conflict or a failure is not ok.
VerifyCreate(p, res) ==
    /\ ver[p].pc = "create"
    /\ IF res = "ok" /\ UsersByEmail(ver[p].email) = {}
       THEN /\ users' = users \cup {NewUser(ver[p].email)}
            /\ VerSettle(p, [ver[p] EXCEPT !.pc = "profile", !.userId = NewUser(ver[p].email).id])
       ELSE /\ users' = users
            /\ VerSettle(p, IF res = "rejected" THEN VerCatch(ver[p], FetchFailed)
                            ELSE [ver[p] EXCEPT !.pc = "list"])
    /\ UNCHANGED <<co, stripe, sw, fb, codes, profiles, clock, gen, redeemed>>

\* Mutant: the fallback takes an id of its own making.
ExistingIdFresh(found) == <<"uid", <<"?">>>>

\* Line 121: listData.users[0].id.
ExistingId(found) == (CHOOSE u \in found : TRUE).id

\* Mutant: when no account is found the handler gives the code back.
VerifyListRollback(p, res) ==
    /\ ver[p].pc = "list"
    /\ LET found == UsersByEmail(ver[p].email) IN
       IF res = "rejected"
       THEN VerSettle(p, VerCatch(ver[p], FetchFailed)) /\ codes' = codes
       ELSE IF res = "ok" /\ found # {}
       THEN /\ VerSettle(p, [ver[p] EXCEPT !.pc = "profile", !.userId = ExistingId(found)])
            /\ codes' = codes
       ELSE /\ VerSettle(p, VerReturn(ver[p], 400, "Failed to create user"))
            /\ codes' = [codes EXCEPT ![ver[p].codeRow].used = FALSE]
    /\ UNCHANGED <<co, stripe, sw, fb, users, profiles, clock, gen, redeemed>>

\* Lines 109-129: the user exists already, fetch the id.
VerifyList(p, res) ==
    /\ ver[p].pc = "list"
    /\ LET found == UsersByEmail(ver[p].email) IN
       IF res = "rejected" THEN VerSettle(p, VerCatch(ver[p], FetchFailed))
       ELSE IF res = "ok" /\ found # {}
       THEN VerSettle(p, [ver[p] EXCEPT !.pc = "profile", !.userId = ExistingId(found)])
       ELSE VerSettle(p, VerReturn(ver[p], 400, "Failed to create user"))
    /\ UNCHANGED <<co, stripe, sw, fb, codes, users, profiles, clock, gen, redeemed>>

\* Lines 140-160: upsert the profile; the response is not inspected.
VerifyProfile(p, res) ==
    /\ ver[p].pc = "profile"
    /\ profiles' = IF res = "ok"
                   THEN UpsertProfile(ver[p].userId, ver[p].plan,
                                      ToISOString(ver[p].now + TrialMs))
                   ELSE profiles
    /\ IF res = "rejected"
       THEN /\ VerSettle(p, VerCatch(ver[p], FetchFailed))
            /\ redeemed' = redeemed
       ELSE /\ VerSettle(p, VerReturn(ver[p], 200, ""))
            /\ redeemed' = [redeemed EXCEPT ![ver[p].codeRow] = @ + 1]
    /\ UNCHANGED <<co, stripe, sw, fb, codes, users, clock, gen>>

\* -------------------------------------------------------- generate-code
\* The repository holds two texts of the handler: the current one, without the
\* cooldown and sending through Resend only ("nocooldown"), and the earlier one,
\* with the pending-code check and the provider fallback ("cooldown").
Variants == {"nocooldown", "cooldown"}

\* process.env as read after the insert: which credentials are set.
Envs == [resendKey : BOOLEAN, sendgridKey : BOOLEAN, mailgunKey : BOOLEAN,
         mailgunDomain : BOOLEAN, fromEmail : BOOLEAN]

RaceEnvs == {e \in Envs : e.fromEmail /\ e.mailgunKey = e.mailgunDomain
                          /\ e.resendKey = e.sendgridKey}

NoEnv == [resendKey |-> FALSE, sendgridKey |-> FALSE, mailgunKey |-> FALSE,
          mailgunDomain |-> FALSE, fromEmail |-> FALSE]

GenIdle == [pc |-> "idle", method |-> "", configured |-> FALSE, variant |-> "", email |-> <<>>, now |-> 0, code |-> <<>>,
            env |-> NoEnv, emailSent |-> FALSE, note |-> <<>>, attempts |-> <<>>,
            inserted |-> 0, status |-> 0, error |-> "", logged |-> ""]

GenReturn(g, status, error) == [g EXCEPT !.pc = "done", !.status = status, !.error = error]

\* Lines 235-241 (339-345): the catch block.
GenCatch(g, thrown) ==
    [GenReturn(g, 500, "An unexpected error occurred") EXCEPT !.logged = thrown]

\* A handler that returned is gone: its locals end, its response goes out.
GenSettle(p, g) ==
    /\ gen' = [gen EXCEPT ![p] = IF g.pc = "done" THEN GenIdle ELSE g]
    /\ response' = IF g.pc = "done"
                   THEN [NoResponse EXCEPT !.handler = g.variant, !.status = g.status,
                            !.error = g.error, !.logged = g.logged,
                            !.method = g.method, !.configured = g.configured,
                            !.email = g.email, !.code = g.code,
                            !.note = g.note, !.row = g.inserted, !.attempts = g.attempts,
                            !.env = g.env]
                   ELSE NoResponse

\* `const now = Date.now()` stands in the earlier text only (line 175 there);
\* the current text reads `now` without declaring it.
NowDeclared(variant) == variant = "cooldown"

\* Lines 120-143 (107-130): method guard, body parsing, validation, configuration.
GenerateStart(p, variant, method, rawEmail, configured) ==
    /\ gen[p].pc = "idle"
    /\ LET email == Trim(ToLowerCase(rawEmail))
           g == [gen[p] EXCEPT !.method = method, !.configured = configured,
                               !.variant = variant, !.email = email]
       IN GenSettle(p,
            IF method # "POST"
            THEN GenReturn([g EXCEPT !.email = <<>>, !.configured = FALSE], 405, "Method Not Allowed")
            ELSE IF email = <<>> THEN GenReturn(g, 400, "Email is required")
            ELSE IF ~configured THEN GenReturn(g, 500, "Supabase configuration is missing")
            ELSE [g EXCEPT !.pc = "user"])
    /\ UNCHANGED <<co, stripe, sw, fb, codes, users, profiles, clock, ver, redeemed>>

\* Lines 175-176 (191-192): the code and its expiry; reading an undeclared
\* `now` throws a ReferenceError, which the handler's catch turns into a 500.
GenerateCode(g, now, n) ==
    IF NowDeclared(g.variant)
    THEN [g EXCEPT !.pc = "insert", !.now = now, !.code = NumberToString(n)]
    ELSE GenCatch(g, NowNotDefined)

\* Mutant: the length test off by one.
AlreadyRegisteredTwice(email) == Cardinality(UsersByEmail(email)) > 1

\* Line 162 (149): userData.users.length > 0.
AlreadyRegistered(email) == UsersByEmail(email) # {}

\* Lines 144-176 (131-154): is the e-mail registered already?
GenerateCheckUser(p, res, n) ==
    /\ gen[p].pc = "user"
    /\ GenSettle(p,
            IF res = "rejected" THEN GenCatch(gen[p], FetchFailed)
            ELSE IF res = "notok" THEN GenReturn(gen[p], 500, "Failed to query users")
            ELSE IF AlreadyRegistered(gen[p].email)
                 THEN GenReturn(gen[p], 400, "This email is already registered")
            ELSE IF gen[p].variant = "cooldown" THEN [gen[p] EXCEPT !.pc = "codes"]
            ELSE GenerateCode(gen[p], 0, n))
    /\ UNCHANGED <<co, stripe, sw, fb, codes, users, profiles, clock, ver, redeemed>>

\* Earlier text, lines 174-189: is an unused code of this e-mail still alive?
Pending(email, now) ==
    \E i \in SelectPending(email) : ~codes[i].used /\ GetTime(codes[i].expires_at) > now

\* Earlier text, lines 155-192: reject while an unused code has not expired.
GenerateCheckCodes(p, res, n) ==
    /\ gen[p].pc = "codes"
    /\ GenSettle(p,
            IF res = "rejected" THEN GenCatch(gen[p], FetchFailed)
            ELSE IF res = "notok" THEN GenReturn(gen[p], 500, "Failed to query codes")
            ELSE IF Pending(gen[p].email, clock)
                 THEN GenReturn(gen[p], 400, "A verification code has already been sent")
            ELSE GenerateCode(gen[p], clock, n))
    /\ UNCHANGED <<co, stripe, sw, fb, codes, users, profiles, clock, ver, redeemed>>

\* Mutant: the chain without its `!emailSent` tests.
FallbackNoStop(g, stage) ==
    IF ~g.env.fromEmail
    THEN GenReturn([g EXCEPT !.note = <<"FROM_EMAIL is not configured">>], 200, "")
    ELSE IF stage <= 0 /\ g.env.resendKey
         THEN [g EXCEPT !.pc = "resend"]
    ELSE IF stage <= 1 /\ g.env.sendgridKey
         THEN [g EXCEPT !.pc = "sendgrid"]
    ELSE IF stage <= 2 /\ g.env.mailgunKey /\ g.env.mailgunDomain
         THEN [g EXCEPT !.pc = "mailgun"]
    ELSE IF ~g.emailSent /\ g.note = <<>>
         THEN GenReturn([g EXCEPT !.note =
                <<"No email provider configured or all providers failed">>], 200, "")
    ELSE GenReturn(g, 200, "")

\* Earlier text, lines 317-338: from the `stage`-th of the provider checks on
\* (0: Resend, 1: SendGrid, 2: Mailgun), the next provider to call, or the 200.
Fallback(g, stage) ==
    IF ~g.env.fromEmail
    THEN GenReturn([g EXCEPT !.note = <<"FROM_EMAIL is not configured">>], 200, "")
    ELSE IF stage <= 0 /\ g.env.resendKey
         THEN [g EXCEPT !.pc = "resend"]
    ELSE IF stage <= 1 /\ ~g.emailSent /\ g.env.sendgridKey
         THEN [g EXCEPT !.pc = "sendgrid"]
    ELSE IF stage <= 2 /\ ~g.emailSent /\ g.env.mailgunKey /\ g.env.mailgunDomain
         THEN [g EXCEPT !.pc = "mailgun"]
    ELSE IF ~g.emailSent /\ g.note = <<>>
         THEN GenReturn([g EXCEPT !.note =
                <<"No email provider configured or all providers failed">>], 200, "")
    ELSE GenReturn(g, 200, "")

\* Current text, lines 202-210: Resend only, and a 500 without its credentials.
ResendOnly(g) ==
    IF ~g.env.resendKey \/ ~g.env.fromEmail
    THEN GenReturn(g, 500, "Email configuration is missing")
    ELSE [g EXCEPT !.pc = "resend"]

\* Mutant: the handler goes on to the e-mail whatever the insert came to.
GenerateInsertUnchecked(p, res, env) ==
    /\ gen[p].pc = "insert"
    /\ Len(codes) < MaxRows
    /\ codes' = IF res = "ok"
                THEN InsertCode(gen[p].email, gen[p].code, ToISOString(gen[p].now + ExpiryMs))
                ELSE codes
    /\ redeemed' = IF res = "ok" THEN Append(redeemed, 0) ELSE redeemed
    /\ LET g == [gen[p] EXCEPT !.env = [resendKey |-> TRUE, sendgridKey |-> TRUE,
                                        mailgunKey |-> TRUE, mailgunDomain |-> TRUE,
                                        fromEmail |-> TRUE],
                               !.inserted = IF res = "ok" THEN Len(codes) + 1 ELSE 0]
       IN GenSettle(p, IF g.variant = "cooldown" THEN Fallback(g, 0) ELSE ResendOnly(g))
    /\ UNCHANGED <<co, stripe, sw, fb, users, profiles, clock, ver>>

\* Lines 178-210 (194-224): insert the row, then read the e-mail credentials.
GenerateInsert(p, res, env) ==
    /\ gen[p].pc = "insert"
    /\ Len(codes) < MaxRows
    /\ IF res = "ok"
       THEN /\ codes' = InsertCode(gen[p].email, gen[p].code,
                                   ToISOString(gen[p].now + ExpiryMs))
            /\ redeemed' = Append(redeemed, 0)
            /\ LET g == [gen[p] EXCEPT !.env = env, !.inserted = Len(codes) + 1]
               IN GenSettle(p, IF g.variant = "cooldown" THEN Fallback(g, 0) ELSE ResendOnly(g))
       ELSE /\ codes' = codes
            /\ redeemed' = redeemed
            /\ GenSettle(p, IF res = "rejected" THEN GenCatch(gen[p], FetchFailed)
                            ELSE GenReturn(gen[p], 500, "Failed to save verification code"))
    /\ UNCHANGED <<co, stripe, sw, fb, users, profiles, clock, ver>>

\* Mutant: a provider's failure leaves no entry in the note.
AttemptSilent(g, via, res) ==
    LET ok == res = "ok"
        h == [g EXCEPT !.attempts = Append(@, [via |-> via, ok |-> ok]),
                       !.emailSent = @ \/ ok]
        stage == CASE via = "Resend" -> 1 [] via = "SendGrid" -> 2 [] via = "Mailgun" -> 3
    IN IF res = "rejected"
       THEN GenCatch([g EXCEPT !.attempts = Append(@, [via |-> via, ok |-> FALSE])], FetchFailed)
       ELSE IF g.variant = "cooldown" THEN Fallback(h, stage)
       ELSE IF ok THEN GenReturn(h, 200, "")
       ELSE GenReturn(h, 500, "Failed to send verification email")

\* One provider call and what follows it: sendViaResend, sendViaSendGrid,
\* sendViaMailgun of the earlier text (lines 229-315); lines 211-234 of the
\* current text, where a Resend failure is a 500.  No helper catches the
\* rejection of its fetch: it reaches the handler's catch block.
Attempt(g, via, res) ==
    LET ok == res = "ok"
        h == [g EXCEPT !.attempts = Append(@, [via |-> via, ok |-> ok]),
                       !.emailSent = @ \/ ok,
                       !.note = IF ok THEN @ ELSE Append(@, via)]
        stage == CASE via = "Resend" -> 1 [] via = "SendGrid" -> 2 [] via = "Mailgun" -> 3
    IN IF res = "rejected"
       THEN GenCatch([g EXCEPT !.attempts = Append(@, [via |-> via, ok |-> FALSE])], FetchFailed)
       ELSE IF g.variant = "cooldown" THEN Fallback(h, stage)
       ELSE IF ok THEN GenReturn(h, 200, "")
       ELSE GenReturn(h, 500, "Failed to send verification email")

GenerateResend(p, res) ==
    /\ gen[p].pc = "resend"
    /\ GenSettle(p, Attempt(gen[p], "Resend", res))
    /\ UNCHANGED <<co, stripe, sw, fb, codes, users, profiles, clock, ver, redeemed>>

GenerateSendGrid(p, res) ==
    /\ gen[p].pc = "sendgrid"
    /\ GenSettle(p, Attempt(gen[p], "SendGrid", res))
    /\ UNCHANGED <<co, stripe, sw, fb, codes, users, profiles, clock, ver, redeemed>>

GenerateMailgun(p, res) ==
    /\ gen[p].pc = "mailgun"
    /\ GenSettle(p, Attempt(gen[p], "Mailgun", res))
    /\ UNCHANGED <<co, stripe, sw, fb, codes, users, profiles, clock, ver, redeemed>>

\* -------------------------------------------------------------- feedback
\* Requests to feedback: the method and the JSON body { to, body, from }.
FeedbackRequest(method, to, text, from) ==
    [method |-> method, to |-> to, text |-> text, from |-> from]

FeedbackRequests ==
    {FeedbackRequest(m, t, b, f) : m \in {"POST", "GET"}, t \in {"", "to@x"},
                                   b \in {"", "text"}, f \in {"", "from@x"}}

NoMessage == [from |-> "", to |-> "", subject |-> "", text |-> "", reply_to |-> ""]

FbIdle == [pc |-> "idle", method |-> "", env |-> NoEnv, message |-> NoMessage,
           attempts |-> <<>>]

\* The handler returned: its locals end, its response goes out.
FbReturn(f, status, body, thrown) ==
    /\ fb' = FbIdle
    /\ response' = [NoResponse EXCEPT !.handler = "feedback", !.status = status,
                        !.error = body, !.logged = thrown, !.method = f.method,
                        !.email = f.message.to,
                        !.attempts = f.attempts, !.env = f.env]

\* Lines 28, 52, 78: the first provider whose credentials are set; its block
\* returns whatever its call comes to.
FeedbackProvider(env) ==
    IF env.resendKey THEN "resend"
    ELSE IF env.sendgridKey THEN "sendgrid"
    ELSE IF env.mailgunKey /\ env.mailgunDomain THEN "mailgun"
    ELSE "none"

FeedbackSent(via) ==
    CASE via = "Resend" -> "Sent via Resend" [] via = "SendGrid" -> "Sent via SendGrid"
      [] via = "Mailgun" -> "Sent via Mailgun"

FeedbackError(via) ==
    CASE via = "Resend" -> "Resend error" [] via = "SendGrid" -> "SendGrid error"
      [] via = "Mailgun" -> "Mailgun error"

\* Lines 9-28, 51-52, 76-78, 100: method guard, parsing, validation, and the
\* first provider whose credentials are set.
FeedbackStart(method, to, text, from, env) ==
    /\ fb.pc = "idle"
    /\ LET message == [from |-> IF env.fromEmail THEN "FROM_EMAIL" ELSE "no-reply@yourdomain.com",
                       to |-> to, subject |-> "Feedback", text |-> text, reply_to |-> from]
           f == [fb EXCEPT !.method = method, !.env = env, !.message = message]
           g == [fb EXCEPT !.method = method]
       IN IF method # "POST" THEN FbReturn(g, 405, "Method Not Allowed", "")
          ELSE IF to = "" \/ text = "" THEN FbReturn(g, 400, "Missing 'to' or 'body'.", "")
          ELSE IF FeedbackProvider(env) = "none"
               THEN FbReturn(f, 500, "No email provider configured", "")
          ELSE /\ fb' = [f EXCEPT !.pc = FeedbackProvider(env)]
               /\ response' = NoResponse
    /\ UNCHANGED <<co, stripe, sw, codes, users, profiles, clock, ver, gen, redeemed>>

\* Lines 29-47, 59-72, 85-97, 101-103: the provider's call and the return.
FeedbackSend(res) ==
    /\ fb.pc \in {"resend", "sendgrid", "mailgun"}
    /\ LET via == CASE fb.pc = "resend" -> "Resend" [] fb.pc = "sendgrid" -> "SendGrid"
                     [] fb.pc = "mailgun" -> "Mailgun"
           f == [fb EXCEPT !.attempts = Append(@, [via |-> via, ok |-> res = "ok"])]
       IN IF res = "rejected" THEN FbReturn(f, 500, "Server error", FetchFailed)
          ELSE IF res = "ok" THEN FbReturn(f, 200, FeedbackSent(via), "")
          ELSE FbReturn(f, 500, FeedbackError(via), "")
    /\ UNCHANGED <<co, stripe, sw, codes, users, profiles, clock, ver, gen, redeemed>>

\* ------------------------------------------------ create-checkout-session
\* The repository holds two texts of the handler: the one that builds the
\* price from an amount ("amount") and the one that takes a price ID from the
\* environment ("priceId").
CheckoutVariants == {"amount", "priceId"}

\* A property the JSON body does not have.
Undefined == "undefined"

\* Requests: the method and event.body, which is no JSON ("invalid"), the JSON
\* null, or a JSON object with or without plan and frequency.
CheckoutRequest(method, json, plan, frequency) ==
    [method |-> method, json |-> json, plan |-> plan, frequency |-> frequency]

CheckoutRequests ==
    {CheckoutRequest(m, "object", p, f) :
        m \in {"POST"}, p \in {Undefined, "pro", "basic", "yearly"},
        f \in {Undefined, "monthly", "yearly", "weekly"}}
    \cup {CheckoutRequest("GET", "object", "pro", "yearly"),
          CheckoutRequest("POST", "invalid", Undefined, Undefined),
          CheckoutRequest("POST", "null", Undefined, Undefined)}

\* process.env PRICE_*: each price ID set or not.
Prices ==
    [PRICE_PRO_YEARLY : {"", "price_pro_yearly"}, PRICE_PRO_MONTHLY : {"", "price_pro_monthly"},
     PRICE_BASIC_YEARLY : {"", "price_basic_yearly"},
     PRICE_BASIC_MONTHLY : {"", "price_basic_monthly"}]

\* Stripe is sent at most this many requests.
MaxSessions == 1

NoParams == [price |-> "", interval |-> "", amount |-> 0]

CoIdle == [pc |-> "idle", variant |-> "", method |-> "", json |-> "", plan |-> "",
           frequency |-> "", prices |-> NoPrices, priceId |-> "", params |-> NoParams,
           sent |-> 0]

\* The handler returned: its locals end, its response goes out.
CheckoutReturn(c, status, error, thrown) ==
    /\ co' = CoIdle
    /\ response' = [NoResponse EXCEPT !.handler = "create-checkout-session",
                        !.status = status, !.error = error, !.logged = thrown,
                        !.variant = c.variant, !.method = c.method, !.json = c.json,
                        !.plan = c.plan, !.frequency = c.frequency, !.prices = c.prices,
                        !.priceId = c.priceId, !.sent = c.sent]

\* Line 42: a destructuring default stands in for an undefined property.
Default(value, default) == IF value = Undefined THEN default ELSE value

\* Mutant: any pro plan is sold at a pro price.
PriceIdByPlan(selectedPlan, frequency, env) ==
    IF selectedPlan = "pro" /\ frequency = "yearly" THEN env.PRICE_PRO_YEARLY
    ELSE IF selectedPlan = "pro" THEN env.PRICE_PRO_MONTHLY
    ELSE IF selectedPlan = "basic" /\ frequency = "yearly" THEN env.PRICE_BASIC_YEARLY
    ELSE env.PRICE_BASIC_MONTHLY

\* Lines 51-60 of the price-ID text.
PriceId(selectedPlan, frequency, env) ==
    IF selectedPlan = "pro" /\ frequency = "yearly" THEN env.PRICE_PRO_YEARLY
    ELSE IF selectedPlan = "pro" /\ frequency = "monthly" THEN env.PRICE_PRO_MONTHLY
    ELSE IF selectedPlan = "basic" /\ frequency = "yearly" THEN env.PRICE_BASIC_YEARLY
    ELSE env.PRICE_BASIC_MONTHLY

\* Lines 33-43 of the amount text: the interval and the amount in cents,
\* Math.round(8.99 * 12 * 100) for a year.
PriceData(plan) ==
    IF plan = "yearly" THEN [NoParams EXCEPT !.interval = "year", !.amount = 10788]
    ELSE [NoParams EXCEPT !.interval = "month", !.amount = 999]

\* Mutant: the handler serves every method.
CheckoutStartUnguarded(variant, method, json, plan, frequency, env) ==
    /\ co.pc = "idle"
    /\ stripe' = stripe
    /\ LET c == [co EXCEPT !.variant = variant, !.method = method, !.json = json,
                           !.plan = plan, !.frequency = frequency, !.prices = env]
       IN IF json = "invalid" THEN CheckoutReturn(c, 400, "Invalid JSON", "")
          ELSE IF json = "null"
               THEN CheckoutReturn(c, 500, "Internal Server Error", "TypeError")
          ELSE IF variant = "amount"
               THEN /\ co' = [c EXCEPT !.pc = "stripe", !.params = PriceData(plan)]
                    /\ response' = NoResponse
          ELSE LET selectedPlan == Default(plan, "basic")
                   priceId == PriceId(selectedPlan, Default(frequency, "monthly"), env)
               IN IF priceId = ""
                  THEN CheckoutReturn(c, 500, "Stripe price configuration is missing", "")
                  ELSE /\ co' = [c EXCEPT !.pc = "stripe", !.priceId = priceId,
                                         !.params = [NoParams EXCEPT !.price = priceId]]
                       /\ response' = NoResponse
    /\ UNCHANGED <<sw, fb, codes, users, profiles, clock, ver, gen, redeemed>>

\* Lines 27-75: the method guard, the parsing of the body, the price and the
\* form data of the request.
CheckoutStart(variant, method, json, plan, frequency, env) ==
    /\ co.pc = "idle"
    /\ stripe' = stripe
    /\ LET c == [co EXCEPT !.variant = variant, !.method = method, !.json = json,
                           !.plan = plan, !.frequency = frequency, !.prices = env]
       IN IF method # "POST" THEN CheckoutReturn(c, 405, "Method Not Allowed", "")
          ELSE IF json = "invalid" THEN CheckoutReturn(c, 400, "Invalid JSON", "")
          ELSE IF json = "null"
               THEN CheckoutReturn(c, 500, "Internal Server Error", "TypeError")
          ELSE IF variant = "amount"
               THEN /\ co' = [c EXCEPT !.pc = "stripe", !.params = PriceData(plan)]
                    /\ response' = NoResponse
          ELSE LET selectedPlan == Default(plan, "basic")
                   priceId == PriceId(selectedPlan, Default(frequency, "monthly"), env)
               IN IF priceId = ""
                  THEN CheckoutReturn(c, 500, "Stripe price configuration is missing", "")
                  ELSE /\ co' = [c EXCEPT !.pc = "stripe", !.priceId = priceId,
                                         !.params = [NoParams EXCEPT !.price = priceId]]
                       /\ response' = NoResponse
    /\ UNCHANGED <<sw, fb, codes, users, profiles, clock, ver, gen, redeemed>>

\* Lines 76-99: the request to Stripe and the return; a response that is not
\* ok is passed through, a rejected fetch is caught.
CheckoutSend(res) ==
    /\ co.pc = "stripe"
    /\ Len(stripe) < MaxSessions
    /\ stripe' = Append(stripe, co.params)
    /\ LET c == [co EXCEPT !.sent = @ + 1]
       IN IF res = "rejected" THEN CheckoutReturn(c, 500, "Internal Server Error", FetchFailed)
          ELSE IF res = "ok" THEN CheckoutReturn(c, 200, "", "")
          ELSE CheckoutReturn(c, 400, "Stripe error", "")
    /\ UNCHANGED <<sw, fb, codes, users, profiles, clock, ver, gen, redeemed>>

\* -------------------------------------------------------- service worker
\* The two texts of the worker: sw.js (lhyst-cache-v35) and its successor
\* (lhyst-cache-v40).
Versions == {35, 40}

\* The site is published at most this many times.
MaxRev == 3

CacheName(v) == IF v = 35 THEN "lhyst-cache-v35" ELSE "lhyst-cache-v40"

\* Some of the URLs handed to cache.addAll: one on both lists, one on the v35
\* list only, one on the v40 list only.
PreCache(v) ==
    IF v = 35 THEN {"./index.html", "./assets/brand-logo.png"}
    ELSE {"./index.html", "./verify.html"}

\* The URLs a page asks for: the pre-cached ones and one on neither list.
Urls == PreCache(35) \cup PreCache(40) \cup {"./app.js"}

\* What the network answers for a URL while revision d of the site is published.
Content(url, d) == [url |-> url, site |-> d]

NoServed == [url |-> "", from |-> "", body |-> [url |-> "", site |-> 0]]

\* Cache Storage is a list of caches in the order of their creation.
SwInit == [deployed |-> 35, rev |-> 1, worker |-> 0, caches |-> <<>>, served |-> NoServed]

HasCache(name) == \E i \in 1..Len(sw.caches) : sw.caches[i].name = name

\* caches.open(name): the cache of that name, created last if there is none.
CachesOpen(name) ==
    IF HasCache(name) THEN sw.caches
    ELSE Append(sw.caches, [name |-> name, entries |-> {}])

\* cache.addAll(urls): all the responses or, if one request fails, none.
AddAll(caches, name, urls, d) ==
    [i \in 1..Len(caches) |->
        IF caches[i].name = name
        THEN [caches[i] EXCEPT !.entries =
                {e \in @ : e.url \notin urls} \cup {Content(u, d) : u \in urls}]
        ELSE caches[i]]

\* caches.match(request): the match in the first cache, in creation order,
\* that holds one; NoServed.body stands for undefined.
CachesMatch(url) ==
    LET hits == {i \in 1..Len(sw.caches) : \E e \in sw.caches[i].entries : e.url = url}
    IN IF hits = {} THEN NoServed.body
       ELSE LET i == CHOOSE i \in hits : \A j \in hits : i <= j
            IN CHOOSE e \in sw.caches[i].entries : e.url = url

\* A new revision of the pages is published; the worker text stays.
SwPublish ==
    /\ sw.rev < MaxRev
    /\ sw' = [sw EXCEPT !.rev = @ + 1, !.served = NoServed]
    /\ response' = NoResponse
    /\ UNCHANGED <<co, stripe, codes, users, profiles, clock, ver, gen, fb, redeemed>>

\* A new revision is published together with the worker text of the bumped
\* cache name.
SwDeploy ==
    /\ sw.deployed = 35
    /\ sw.rev < MaxRev
    /\ sw' = [sw EXCEPT !.deployed = 40, !.rev = @ + 1, !.served = NoServed]
    /\ response' = NoResponse
    /\ UNCHANGED <<co, stripe, codes, users, profiles, clock, ver, gen, fb, redeemed>>

\* The install listener (lines 3-38) of the deployed worker, run when the
\* browser finds a worker text it has not installed.
SwInstall(res) ==
    /\ sw.worker # sw.deployed
    /\ LET name == CacheName(sw.deployed)
           opened == CachesOpen(name)
       IN sw' = IF res = "ok"
                THEN [sw EXCEPT !.worker = sw.deployed, !.served = NoServed,
                                !.caches = AddAll(opened, name, PreCache(sw.deployed), sw.rev)]
                ELSE [sw EXCEPT !.caches = opened, !.served = NoServed]
    /\ response' = NoResponse
    /\ UNCHANGED <<co, stripe, codes, users, profiles, clock, ver, gen, fb, redeemed>>

\* Mutant: the fetch listener keeps what the network answered.
SwFetchCaching(url, res) ==
    /\ sw.worker # 0
    /\ LET resp == CachesMatch(url)
       IN sw' = IF resp # NoServed.body
                THEN [sw EXCEPT !.served = [url |-> url, from |-> "cache", body |-> resp]]
                ELSE IF res = "ok"
                THEN [sw EXCEPT !.served = [url |-> url, from |-> "network",
                                            body |-> Content(url, sw.rev)],
                                !.caches = AddAll(sw.caches, CacheName(sw.worker), {url},
                                                  sw.rev)]
                ELSE [sw EXCEPT !.served = [url |-> url, from |-> "network error",
                                            body |-> NoServed.body]]
    /\ response' = NoResponse
    /\ UNCHANGED <<co, stripe, codes, users, profiles, clock, ver, gen, fb, redeemed>>

\* The fetch listener (lines 41-43): caches.match(e.request), else fetch.
SwFetch(url, res) ==
    /\ sw.worker # 0
    /\ LET resp == CachesMatch(url)
       IN sw' = IF resp # NoServed.body
                THEN [sw EXCEPT !.served = [url |-> url, from |-> "cache", body |-> resp]]
                ELSE IF res = "ok"
                THEN [sw EXCEPT !.served = [url |-> url, from |-> "network",
                                            body |-> Content(url, sw.rev)]]
                ELSE [sw EXCEPT !.served = [url |-> url, from |-> "network error",
                                            body |-> NoServed.body]]
    /\ response' = NoResponse
    /\ UNCHANGED <<co, stripe, codes, users, profiles, clock, ver, gen, fb, redeemed>>

\* ------------------------------------------------------------------ time
Tick(t) ==
    /\ t > clock
    /\ clock' = t
    /\ response' = NoResponse
    /\ UNCHANGED <<co, stripe, sw, fb, codes, users, profiles, ver, gen, redeemed>>

\* ------------------------------------------------------------- behaviour
Init ==
    /\ codes = <<>>
    /\ users = {}
    /\ profiles = {}
    /\ clock = 0
    /\ ver = [p \in Verifiers |-> VerIdle]
    /\ gen = [p \in Issuers |-> GenIdle]
    /\ fb = FbIdle
    /\ sw = SwInit
    /\ co = CoIdle
    /\ stripe = <<>>
    /\ response = NoResponse
    /\ redeemed = <<>>

\* A request is taken by the lowest free instance.
VerArrives(p) == ver[p].pc = "idle" => \A q \in Verifiers : q < p => ver[q].pc # "idle"
GenArrives(p) == gen[p].pc = "idle" => \A q \in Issuers : q < p => gen[q].pc # "idle"

\* No other invocation is in flight.
VerAlone(p) ==
    /\ \A q \in Verifiers \ {p} : ver[q].pc = "idle"
    /\ \A q \in Issuers : gen[q].pc = "idle"

GenAlone(p) ==
    /\ \A q \in Issuers \ {p} : gen[q].pc = "idle"
    /\ \A q \in Verifiers : ver[q].pc = "idle"

\* One invocation at a time: a handler runs to its response before the next
\* request arrives.  The store may answer not-ok; time passes between steps.
VerTurn(p) == VerArrives(p) /\ VerAlone(p)
GenTurn(p) == GenArrives(p) /\ GenAlone(p)

Next ==
    \/ \E p \in Verifiers, r \in VerifyRequests :
          VerTurn(p) /\ VerifyStart(p, r.method, r.email, r.code, r.password, r.plan, r.configured)
    \/ \E p \in Verifiers, res \in Fetch : VerTurn(p) /\ VerifyLookup(p, res)
    \/ \E p \in Verifiers, res \in Fetch : VerTurn(p) /\ VerifyMark(p, res)
    \/ \E p \in Verifiers, res \in Fetch : VerTurn(p) /\ VerifyCreate(p, res)
    \/ \E p \in Verifiers, res \in Fetch : VerTurn(p) /\ VerifyList(p, res)
    \/ \E p \in Verifiers, res \in Fetch : VerTurn(p) /\ VerifyProfile(p, res)
    \/ \E p \in Issuers, v \in Variants, r \in GenerateRequests :
          GenTurn(p) /\ GenerateStart(p, v, r.method, r.email, r.configured)
    \/ \E p \in Issuers, res \in Fetch, n \in CodePool :
          GenTurn(p) /\ GenerateCheckUser(p, res, n)
    \/ \E p \in Issuers, res \in Fetch, n \in CodePool :
          GenTurn(p) /\ GenerateCheckCodes(p, res, n)
    \/ \E p \in Issuers, res \in Fetch, env \in Envs :
          GenTurn(p) /\ GenerateInsert(p, res, IF res = "ok" THEN env ELSE NoEnv)
    \/ \E p \in Issuers, res \in Fetch : GenTurn(p) /\ GenerateResend(p, res)
    \/ \E p \in Issuers, res \in Fetch : GenTurn(p) /\ GenerateSendGrid(p, res)
    \/ \E p \in Issuers, res \in Fetch : GenTurn(p) /\ GenerateMailgun(p, res)
    \/ \E t \in Instants : Tick(t)

Spec == Init /\ [][Next]_vars

\* Overlapping invocations: the steps of the handlers interleave at their awaits,
\* within one instant and with a store that answers every request.
StoreUp == {"ok"}

\* A provider answers ok or not ok.
ProviderAnswers == {"ok", "notok"}

NextRace ==
    \/ \E p \in Verifiers, r \in RaceVerifyRequests :
          VerArrives(p) /\ VerifyStart(p, r.method, r.email, r.code, r.password, r.plan, r.configured)
    \/ \E p \in Verifiers, res \in StoreUp : VerArrives(p) /\ VerifyLookup(p, res)
    \/ \E p \in Verifiers, res \in StoreUp : VerArrives(p) /\ VerifyMark(p, res)
    \/ \E p \in Verifiers, res \in StoreUp : VerArrives(p) /\ VerifyCreate(p, res)
    \/ \E p \in Verifiers, res \in StoreUp : VerArrives(p) /\ VerifyList(p, res)
    \/ \E p \in Verifiers, res \in StoreUp : VerArrives(p) /\ VerifyProfile(p, res)
    \/ \E p \in Issuers, v \in Variants, r \in RaceGenerateRequests :
          GenArrives(p) /\ GenerateStart(p, v, r.method, r.email, r.configured)
    \/ \E p \in Issuers, res \in StoreUp, n \in CodePool :
          GenArrives(p) /\ GenerateCheckUser(p, res, n)
    \/ \E p \in Issuers, res \in StoreUp, n \in CodePool :
          GenArrives(p) /\ GenerateCheckCodes(p, res, n)
    \/ \E p \in Issuers, res \in StoreUp, env \in RaceEnvs :
          GenArrives(p) /\ GenerateInsert(p, res, env)
    \/ \E p \in Issuers, res \in ProviderAnswers : GenArrives(p) /\ GenerateResend(p, res)
    \/ \E p \in Issuers, res \in ProviderAnswers : GenArrives(p) /\ GenerateSendGrid(p, res)
    \/ \E p \in Issuers, res \in ProviderAnswers : GenArrives(p) /\ GenerateMailgun(p, res)

SpecRace == Init /\ [][NextRace]_vars

\* The feedback relay, which touches neither the store nor the clock.
NextFeedback ==
    \/ \E r \in FeedbackRequests, env \in Envs :
          FeedbackStart(r.method, r.to, r.text, r.from, env)
    \/ \E res \in Fetch : FeedbackSend(res)

SpecFeedback == Init /\ [][NextFeedback]_vars

\* The checkout handler alone, in either text.
NextCheckout ==
    \/ \E r \in CheckoutRequests :
          CheckoutStart("amount", r.method, r.json, r.plan, r.frequency, NoPrices)
    \/ \E r \in CheckoutRequests, env \in Prices :
          CheckoutStart("priceId", r.method, r.json, r.plan, r.frequency, env)
    \/ \E res \in Fetch : CheckoutSend(res)

SpecCheckout == Init /\ [][NextCheckout]_vars

\* The four handlers of the site, one invocation at a time and within one
\* instant: a request of any method may come to any of them.
AnyMethod(requests) == {r \in requests : r.method # "POST"}

AllPrices == [PRICE_PRO_YEARLY |-> "price_pro_yearly", PRICE_PRO_MONTHLY |-> "price_pro_monthly",
              PRICE_BASIC_YEARLY |-> "price_basic_yearly",
              PRICE_BASIC_MONTHLY |-> "price_basic_monthly"]

\* No feedback and no checkout invocation is in flight.
RelaysIdle == fb.pc = "idle" /\ co.pc = "idle"

VerOnly(p) == VerTurn(p) /\ RelaysIdle

GenOnly(p) == GenTurn(p) /\ RelaysIdle

FbOnly ==
    /\ \A q \in Verifiers : ver[q].pc = "idle"
    /\ \A q \in Issuers : gen[q].pc = "idle"
    /\ co.pc = "idle"

CoOnly ==
    /\ \A q \in Verifiers : ver[q].pc = "idle"
    /\ \A q \in Issuers : gen[q].pc = "idle"
    /\ fb.pc = "idle"

NextHandlers ==
    \/ \E p \in Verifiers, r \in RaceVerifyRequests \cup AnyMethod(VerifyRequests) :
          VerOnly(p) /\ VerifyStart(p, r.method, r.email, r.code, r.password, r.plan, r.configured)
    \/ \E p \in Verifiers, res \in Fetch : VerOnly(p) /\ VerifyLookup(p, res)
    \/ \E p \in Verifiers, res \in Fetch : VerOnly(p) /\ VerifyMark(p, res)
    \/ \E p \in Verifiers, res \in Fetch : VerOnly(p) /\ VerifyCreate(p, res)
    \/ \E p \in Verifiers, res \in Fetch : VerOnly(p) /\ VerifyList(p, res)
    \/ \E p \in Verifiers, res \in Fetch : VerOnly(p) /\ VerifyProfile(p, res)
    \/ \E p \in Issuers, v \in Variants, r \in RaceGenerateRequests \cup AnyMethod(GenerateRequests) :
          GenOnly(p) /\ GenerateStart(p, v, r.method, r.email, r.configured)
    \/ \E p \in Issuers, res \in Fetch, n \in CodePool :
          GenOnly(p) /\ GenerateCheckUser(p, res, n)
    \/ \E p \in Issuers, res \in Fetch, n \in CodePool :
          GenOnly(p) /\ GenerateCheckCodes(p, res, n)
    \/ \E p \in Issuers, res \in Fetch, env \in RaceEnvs :
          GenOnly(p) /\ GenerateInsert(p, res, env)
    \/ \E p \in Issuers, res \in Fetch : GenOnly(p) /\ GenerateResend(p, res)
    \/ \E p \in Issuers, res \in Fetch : GenOnly(p) /\ GenerateSendGrid(p, res)
    \/ \E p \in Issuers, res \in Fetch : GenOnly(p) /\ GenerateMailgun(p, res)
    \/ \E r \in {q \in FeedbackRequests : q.to # "" /\ q.text # "" /\ q.from = ""},
          env \in RaceEnvs :
          FbOnly /\ FeedbackStart(r.method, r.to, r.text, r.from, env)
    \/ \E res \in Fetch : FbOnly /\ FeedbackSend(res)
    \/ \E v \in CheckoutVariants,
          r \in {q \in CheckoutRequests : q.plan = "pro" /\ q.frequency = "yearly"} :
          CoOnly /\ CheckoutStart(v, r.method, r.json, r.plan, r.frequency,
                                  IF v = "priceId" THEN AllPrices ELSE NoPrices)
    \/ \E res \in Fetch : CoOnly /\ CheckoutSend(res)

SpecHandlers == Init /\ [][NextHandlers]_vars

\* The browser: deployments, installs and the fetches of its pages.
NetworkAnswers == {"ok", "rejected"}

NextWorker ==
    \/ SwPublish
    \/ SwDeploy
    \/ \E res \in NetworkAnswers : SwInstall(res)
    \/ \E url \in Urls, res \in NetworkAnswers : SwFetch(url, res)

SpecWorker == Init /\ [][NextWorker]_vars
\* ================================================================ claims
Invalid == "Invalid or expired verification code"
Expired == "Verification code has expired"

\* verify-code answers given before the lookup has been answered by the store.
BeforeLookup == {"Method Not Allowed", "Email, code and password are required",
                 "Supabase configuration is missing", "Failed to verify code"}

\* generate-code answers given before the user query has been answered.
BeforeUserCheck == {"Method Not Allowed", "Email is required",
                    "Supabase configuration is missing", "Failed to query users"}

RECURSIVE Redemptions(_, _, _)
\* The 200 answers of verify-code so far for rows 1..n holding (email, code).
Redemptions(n, email, code) ==
    IF n = 0 THEN 0
    ELSE Redemptions(n - 1, email, code)
         + (IF codes[n].email = email /\ codes[n].code = code THEN redeemed[n] ELSE 0)

\* The redemptions of the answered request's (email, code) before this answer.
PriorRedemptions ==
    Redemptions(Len(codes), response.email, response.code)
    - (IF response.handler = "verify" /\ response.status = 200 THEN 1 ELSE 0)

\* C1: with one invocation at a time, once verify-code has answered 200 for
\* (email, code), a later verify-code for the same (email, code) never answers
\* 200 and finds no row, and when its lookup is answered it answers 400 invalid
\* code.
C1_SingleUse ==
    (response.handler = "verify" /\ PriorRedemptions > 0) =>
        /\ response.status # 200
        /\ response.row = 0
        /\ \/ response.error \in BeforeLookup
           \/ response.logged = FetchFailed
           \/ response.status = 400 /\ response.error = Invalid

C1_Witness ==
    /\ response.handler = "verify"
    /\ PriorRedemptions > 0
    /\ response.status = 400
    /\ response.error = Invalid

\* C2: however verify-code invocations for one code row interleave, at most
\* one of them answers 200 for that row.
C2_NoDoubleRedemption == \A i \in 1..Len(redeemed) : redeemed[i] <= 1

\* A valid generate-code request for an e-mail without account, answered by
\* the store.
IssuedWithoutAccount(variant) ==
    /\ response.handler = variant
    /\ response.email # <<>>
    /\ response.error \notin BeforeUserCheck
    /\ response.logged # FetchFailed
    /\ \A u \in users : u.email # response.email

\* C3: the current (no-cooldown) generate-code, asked for an e-mail without
\* account, answers 200 and has persisted the row that verify-code then
\* redeems.
C3_IssueThenVerify ==
    IssuedWithoutAccount("nocooldown") =>
        /\ response.status = 200
        /\ response.row \in 1..Len(codes)
        /\ codes[response.row].email = response.email

\* The row the lookup step of verify-code p took as codes[0] (0: none).
TakenRow(p) == IF ver'[p].pc = "idle" THEN response'.row ELSE ver'[p].codeRow

\* The lookup of verify-code p is answered by the store in this step.
LookupAnswered(p) ==
    /\ ver[p].pc = "lookup" /\ ver'[p].pc # "lookup"
    /\ response'.error # "Failed to verify code" /\ response'.logged # FetchFailed

StoreUntouched == codes' = codes /\ users' = users /\ profiles' = profiles

\* C4: verify-code whose matching unused row expired before now answers 400
\* with the expired-code error, not the invalid-code one, and writes nothing:
\* the row stays unused, no account, no profile.
C4_ExpiredRejected ==
    [][\A p \in Verifiers :
        (/\ LookupAnswered(p)
         /\ TakenRow(p) \in 1..Len(codes)
         /\ codes[TakenRow(p)].expires_at.iso < clock)
        => /\ response'.status = 400
           /\ response'.error = Expired
           /\ response'.error # Invalid
           /\ ver'[p].pc = "idle"
           /\ StoreUntouched]_vars

C4_Witness ==
    /\ response.handler = "verify"
    /\ response.error = Expired
    /\ response.row \in 1..Len(codes)
    /\ ~codes[response.row].used
    /\ codes[response.row].expires_at.iso < clock
    /\ users = {}
    /\ profiles = {}

\* C5: verify-code for an (email, code) with no unused row in the store
\* answers 400 invalid code and leaves the store as it was.
C5_NeverIssued ==
    [][\A p \in Verifiers :
        (/\ LookupAnswered(p)
         /\ ~\E i \in 1..Len(codes) :
                codes[i].email = ver[p].email /\ codes[i].code = ver[p].code /\ ~codes[i].used)
        => /\ response'.status = 400
           /\ response'.error = Invalid
           /\ ver'[p].pc = "idle"
           /\ StoreUntouched]_vars

C5_Witness ==
    /\ response.handler = "verify"
    /\ response.status = 400
    /\ response.error = Invalid
    /\ \E i \in 1..Len(codes) : codes[i].email = response.email /\ ~codes[i].used
    /\ \A i \in 1..Len(codes) :
            ~(codes[i].email = response.email /\ codes[i].code = response.code)

\* C6: generate-code for an e-mail that has an account answers 400 already
\* registered, inserts no row and calls no e-mail provider.
C6_DuplicateAccount ==
    [][\A p \in Issuers :
        (/\ gen[p].pc = "user" /\ gen'[p].pc # "user"
         /\ response'.error # "Failed to query users" /\ response'.logged # FetchFailed
         /\ \E u \in users : u.email = gen[p].email)
        => /\ response'.status = 400
           /\ response'.error = "This email is already registered"
           /\ response'.row = 0
           /\ response'.attempts = <<>>
           /\ gen'[p].pc = "idle"
           /\ codes' = codes]_vars

C6_Witness ==
    /\ response.handler = "nocooldown"
    /\ response.error = "This email is already registered"
    /\ \E u \in users : u.email = response.email
    /\ codes # <<>>

\* C7: generate-code for an e-mail without account persists a new row even
\* while an unused, unexpired row of that e-mail exists.
C7_NoCooldown ==
    (/\ IssuedWithoutAccount("nocooldown")
     /\ \E i \in 1..Len(codes) :
            /\ i # response.row
            /\ codes[i].email = response.email
            /\ ~codes[i].used
            /\ codes[i].expires_at.iso > clock)
    => /\ response.row \in 1..Len(codes)
       /\ codes[response.row].email = response.email

\* C8: a step of generate-code leaves every existing row as it was, so a row
\* that was unused and unexpired before it is so after it.
C8_ReissueKeepsRows ==
    [][gen' # gen =>
        /\ Len(codes') >= Len(codes)
        /\ \A i \in 1..Len(codes) : codes'[i] = codes[i]]_vars

C8_Witness ==
    /\ response.handler \in Variants
    /\ response.status = 200
    /\ response.row = 2
    /\ codes[1].email = codes[2].email
    /\ ~codes[1].used
    /\ codes[1].expires_at.iso >= clock

\* C9: generate-code that has persisted its row answers 200 whatever becomes
\* of the delivery, and the row is in the store, unused.
C9_SoftSuccess ==
    (response.handler \in Variants /\ response.row > 0) =>
        /\ response.status = 200
        /\ response.row \in 1..Len(codes)
        /\ codes[response.row].email = response.email
        /\ codes[response.row].code = response.code
        /\ ~codes[response.row].used

Rank(via) == CASE via = "Resend" -> 1 [] via = "SendGrid" -> 2 [] via = "Mailgun" -> 3

Calling(pc) == CASE pc = "resend" -> "Resend" [] pc = "sendgrid" -> "SendGrid"
                 [] pc = "mailgun" -> "Mailgun"

Configured(env, via) ==
    CASE via = "Resend" -> env.resendKey
      [] via = "SendGrid" -> env.sendgridKey
      [] via = "Mailgun" -> env.mailgunKey /\ env.mailgunDomain

\* In the fixed order, each provider once, none after a success.
InOrderUntilSuccess(attempts) ==
    \A j, k \in 1..Len(attempts) :
        j < k => Rank(attempts[j].via) < Rank(attempts[k].via) /\ ~attempts[j].ok

\* C10: after the insert, generate-code calls the providers in the order
\* Resend, SendGrid, Mailgun, a provider only if it is configured and every
\* provider called before it failed, none after a success, each at most once.
C10_OrderedFallback ==
    /\ InOrderUntilSuccess(response.attempts)
    /\ \A p \in Issuers :
        /\ InOrderUntilSuccess(gen[p].attempts)
        /\ \A k \in 1..Len(gen[p].attempts) : Configured(gen[p].env, gen[p].attempts[k].via)
        /\ gen[p].pc \in {"resend", "sendgrid", "mailgun"} =>
            /\ gen[p].inserted \in 1..Len(codes)
            /\ Configured(gen[p].env, Calling(gen[p].pc))
            /\ \A k \in 1..Len(gen[p].attempts) :
                /\ ~gen[p].attempts[k].ok
                /\ Rank(gen[p].attempts[k].via) < Rank(Calling(gen[p].pc))

C10_Witness ==
    response.attempts = << [via |-> "Resend", ok |-> FALSE],
                           [via |-> "SendGrid", ok |-> FALSE],
                           [via |-> "Mailgun", ok |-> TRUE] >>

\* The providers whose call failed, in the order of the calls.
RECURSIVE Failures(_)
Failures(attempts) ==
    IF attempts = <<>> THEN <<>>
    ELSE IF Head(attempts).ok THEN Failures(Tail(attempts))
    ELSE <<Head(attempts).via>> \o Failures(Tail(attempts))

NoProviderNote == <<"No email provider configured or all providers failed">>
NoFromNote == <<"FROM_EMAIL is not configured">>

C12_FeedbackFallback ==
    (response.handler = "feedback" /\ response.attempts # <<>>
        /\ ~response.attempts[Len(response.attempts)].ok) =>
        ~\E via \in {"Resend", "SendGrid", "Mailgun"} :
            /\ Configured(response.env, via)
            /\ Rank(via) > Rank(response.attempts[Len(response.attempts)].via)

\* The invocation has got past its mark-used step.
Provisioning(v) == v.pc \in {"create", "list", "profile"}

\* C13: verify-code sends the account-creation request only after its PATCH
\* used=true was answered ok; a PATCH that fails is answered 500 and followed
\* by no account-creation and no profile request.
C13_MarkBeforeCreate ==
    [][\A p \in Verifiers :
        /\ (Provisioning(ver'[p]) /\ ~Provisioning(ver[p])) =>
                /\ ver[p].pc = "mark"
                /\ ver'[p].pc = "create"
                /\ codes'[ver[p].codeRow].used
        /\ (ver[p].pc = "mark" /\ ver'[p].pc # "mark" /\ ~codes'[ver[p].codeRow].used) =>
                /\ response'.status = 500
                /\ ver'[p].pc = "idle"
                /\ users' = users /\ profiles' = profiles
        /\ (users' # users \/ profiles' # profiles) =>
                \E q \in Verifiers : Provisioning(ver[q]) /\ codes[ver[q].codeRow].used]_vars

C13_Witness ==
    /\ response.handler = "verify"
    /\ response.status = 500
    /\ response.error = "Failed to mark code as used"
    /\ response.row \in 1..Len(codes)
    /\ ~codes[response.row].used
    /\ users = {}

\* C14: when the account exists already, verify-code takes the id of the
\* existing account and answers 200, and a 200 leaves exactly one account for
\* the e-mail (store answering every request).
C14_IdempotentProvisioning ==
    [][\A p \in Verifiers :
        /\ (ver[p].pc = "list" /\ ver'[p] # ver[p]) =>
                /\ ver'[p].pc = "profile"
                /\ \E u \in users : u.email = ver[p].email /\ u.id = ver'[p].userId
        /\ (ver[p].pc = "profile" /\ ver'[p] # ver[p]) =>
                /\ response'.status = 200
                /\ Cardinality({u \in users' : u.email = response'.email}) = 1
                /\ \E u \in users' : u.email = response'.email /\ u.id = ver[p].userId]_vars

C14_Witness ==
    /\ response.handler = "verify"
    /\ response.status = 200
    /\ response.row = 2
    /\ redeemed = <<1, 1>>
    /\ Cardinality(users) = 1

\* C15: after verify-code answered 200, the one profile row of the account
\* has the requested plan and a trial end 14 days after the verification.
C15_ProfileUpserted ==
    (response.handler = "verify" /\ response.status = 200) =>
        \A u \in users : u.email = response.email =>
            /\ Cardinality({r \in profiles : r.id = u.id}) = 1
            /\ \A r \in profiles : r.id = u.id =>
                    /\ r.plan = response.plan
                    /\ r.trial_end_at = ToISOString(response.now + TrialMs)

\* Lowercase, and no whitespace at either end.
Normalized(e) ==
    /\ \A i \in 1..Len(e) : e[i] \notin {"A", "B"}
    /\ e # <<>> => e[1] # " " /\ e[Len(e)] # " "

\* C16: generate-code stores and verify-code looks up the e-mail lowercased
\* and trimmed, so a code is redeemed under any spelling of its e-mail that
\* differs in case or surrounding whitespace, and the row marked used is the
\* one stored under the normalized e-mail.
C16_Normalization ==
    /\ \A i \in 1..Len(codes) : Normalized(codes[i].email)
    /\ \A p \in Verifiers : Normalized(ver[p].email)
    /\ \A p \in Issuers : Normalized(gen[p].email)
    /\ (response.handler = "verify" /\ response.row > 0) =>
            /\ response.email = Trim(ToLowerCase(response.rawEmail))
            /\ Normalized(response.email)
            /\ codes[response.row].email = response.email
    /\ (response.handler = "verify" /\ response.status = 200) =>
            codes[response.row].used

C16_Witness ==
    /\ response.handler = "verify"
    /\ response.status = 200
    /\ response.rawEmail = <<"A", " ">>
    /\ response.email = <<"a">>
    /\ codes[response.row].email = <<"a">>
    /\ codes[response.row].used

\* C17: a row that is used stays used, whatever the interleaving of
\* generate-code and verify-code; rows are created unused and never removed.
C17_UsedMonotonic ==
    [][/\ Len(codes') >= Len(codes)
       /\ \A i \in 1..Len(codes) : codes[i].used => codes'[i].used
       /\ \A i \in (Len(codes) + 1)..Len(codes') : ~codes'[i].used]_vars

C17_Witness ==
    /\ Len(codes) = 2
    /\ codes[1].used
    /\ redeemed[1] = 2
    /\ ~codes[2].used

\* The most recently issued of the rows the lookup of verify-code p matches.
LatestMatch(p) ==
    LET found == {i \in 1..Len(codes) : codes[i].email = ver[p].email
                                         /\ codes[i].code = ver[p].code /\ ~codes[i].used}
    IN CHOOSE i \in found : \A j \in found : j <= i

\* C18: when several unused rows match (email, code), verify-code decides
\* expired or accepted by the expiry of the most recently issued of them,
\* whatever the order in which the store returns the rows.
C18_LatestRowDecides ==
    [][\A p \in Verifiers :
        (LookupAnswered(p) /\ TakenRow(p) \in 1..Len(codes)) =>
            (response'.error = Expired <=> codes[LatestMatch(p)].expires_at.iso < clock)]_vars

\* generate-code p is calling an e-mail provider.
Sending(g) == g.pc \in {"resend", "sendgrid", "mailgun"}

\* C19: an insert that fails is answered 500 and followed by no provider
\* call: every code a provider is asked to send has its row in the store.
C19_InsertBeforeEmail ==
    [][\A p \in Issuers :
        /\ (gen[p].pc = "insert" /\ gen'[p] # gen[p] /\ codes' = codes) =>
                /\ response'.status = 500
                /\ response'.error \in {"Failed to save verification code",
                                        "An unexpected error occurred"}
                /\ response'.attempts = <<>>
                /\ gen'[p].pc = "idle"
        /\ Sending(gen'[p]) =>
                /\ gen'[p].inserted \in 1..Len(codes')
                /\ codes'[gen'[p].inserted].email = gen'[p].email
                /\ codes'[gen'[p].inserted].code = gen'[p].code
        /\ response'.attempts # <<>> /\ response'.handler \in Variants =>
                /\ response'.row \in 1..Len(codes')
                /\ codes'[response'.row].code = response'.code]_vars

C19_Witness ==
    /\ response.handler = "cooldown"
    /\ response.status = 500
    /\ response.error = "Failed to save verification code"
    /\ response.attempts = <<>>
    /\ response.row = 0
    /\ codes = <<>>

\* C20: verify-code answers 200 only when every downstream step succeeded:
\* the row is marked used, the account exists, the store took the profile.
C20_DownstreamReported ==
    (response.handler = "verify" /\ response.status = 200) =>
        /\ codes[response.row].used
        /\ \E u \in users : u.email = response.email
        /\ \E u \in users, r \in profiles :
                /\ u.email = response.email /\ r.id = u.id
                /\ r.trial_end_at.iso >= response.now

\* The step is the start of an invocation that returned at once: no fetch.
VerReturnedAtOnce(p) ==
    /\ ver[p].pc = "idle" /\ ver'[p].pc = "idle" /\ response'.handler = "verify"
    /\ codes' = codes /\ users' = users /\ profiles' = profiles /\ gen' = gen /\ fb' = fb

GenReturnedAtOnce(p) ==
    /\ gen[p].pc = "idle" /\ gen'[p].pc = "idle" /\ response'.handler \in Variants
    /\ codes' = codes /\ users' = users /\ profiles' = profiles /\ ver' = ver /\ fb' = fb

\* C21: a POST to verify-code with the normalized e-mail, the trimmed code
\* or the password empty, and a POST to generate-code with the normalized
\* e-mail empty, is answered 400 at once: no store or provider call, no
\* state changed.
C21_ValidationErrors ==
    [][/\ \A p \in Verifiers :
            (ver[p].pc = "idle" /\ ver'[p] # ver[p]) =>
                /\ ver'[p].method = "POST"
                /\ ver'[p].email # <<>> /\ ver'[p].code # <<>> /\ ver'[p].password # ""
       /\ \A p \in Issuers :
            (gen[p].pc = "idle" /\ gen'[p] # gen[p]) =>
                gen'[p].method = "POST" /\ gen'[p].email # <<>>
       /\ (response'.handler = "verify" /\ response'.method = "POST"
            /\ (response'.email = <<>> \/ response'.code = <<>> \/ response'.password = "")) =>
                /\ response'.status = 400
                /\ response'.error = "Email, code and password are required"
                /\ \E p \in Verifiers : VerReturnedAtOnce(p)
       /\ (response'.handler \in Variants /\ response'.method = "POST"
            /\ response'.email = <<>>) =>
                /\ response'.status = 400
                /\ response'.error = "Email is required"
                /\ \E p \in Issuers : GenReturnedAtOnce(p)]_vars

C21_Witness ==
    /\ response.handler = "verify"
    /\ response.status = 400
    /\ response.error = "Email, code and password are required"
    /\ response.email = <<"a">>
    /\ response.code # <<>>
    /\ response.password = ""
    /\ codes # <<>>

\* C22: a POST to generate-code with a valid e-mail is answered with the 500
\* configuration error when the Supabase URL or service key is unset, and,
\* once the e-mail credentials have been read, when they are unset.
C22_ConfigurationErrors ==
    /\ (response.handler \in Variants /\ response.method = "POST"
         /\ response.email # <<>> /\ ~response.configured) =>
            /\ response.status = 500
            /\ response.error = "Supabase configuration is missing"
    /\ (response.handler \in Variants /\ response.row > 0
         /\ (\/ ~response.env.fromEmail
             \/ \A via \in {"Resend", "SendGrid", "Mailgun"} : ~Configured(response.env, via))) =>
            /\ response.status = 500
            /\ response.error = "Email configuration is missing"

\* C23: once the v40 worker is installed in a browser that holds the v35
\* cache, a fetch for a URL on both pre-cache lists is answered with the v40
\* copy, never with the copy of the v35 cache.
C23_VersionBumpRefreshes ==
    (sw.worker = 40 /\ sw.served.url \in PreCache(35) \cap PreCache(40)) =>
        \E i \in 1..Len(sw.caches) :
            /\ sw.caches[i].name = CacheName(40)
            /\ sw.served.body \in sw.caches[i].entries

\* The fetch listener has just answered.
Served == sw'.served # NoServed

\* C25: the fetch listener answers from a cache whenever some cache holds a
\* match and asks the network only when none does, and it leaves every cache
\* as it was: the caches hold what the installs pre-fetched.
C25_CacheFirst ==
    [][/\ Served =>
            /\ sw'.caches = sw.caches
            /\ LET held == \E i \in 1..Len(sw.caches) :
                                \E e \in sw.caches[i].entries : e.url = sw'.served.url
               IN /\ held <=> sw'.served.from = "cache"
                  /\ held => \E i \in 1..Len(sw.caches) : sw'.served.body \in sw.caches[i].entries
       /\ \A i \in 1..Len(sw'.caches) :
            \A e \in sw'.caches[i].entries :
                \E v \in Versions : sw'.caches[i].name = CacheName(v) /\ e.url \in PreCache(v)]_vars

C25_Witness ==
    /\ sw.served.from = "network"
    /\ sw.served.url = "./app.js"
    /\ Len(sw.caches) = 2
    /\ \A i \in 1..2 : sw.caches[i].entries # {}

\* Every row of the table holding (email, code) is used.
AllUsed(table, email, code) ==
    \A i \in 1..Len(table) :
        (table[i].email = email /\ table[i].code = code) => table[i].used

\* C24: when the account creation failed and the fallback lookup yields no
\* account, verify-code answers with an error (400 'Failed to create user'
\* when the lookup was answered), writes no profile and no account, and
\* leaves the code row used: no unused row is left for (email, code), and a
\* lookup for an (email, code) without unused row answers invalid code.
C24_ConsumedWithoutAccount ==
    [][\A p \in Verifiers :
        /\ (ver[p].pc = "list" /\ ver'[p].pc \notin {"list", "profile"}) =>
                /\ ver'[p].pc = "idle"
                /\ response'.status \in {400, 500}
                /\ response'.logged # FetchFailed =>
                        (response'.status = 400 /\ response'.error = "Failed to create user")
                /\ StoreUntouched
                /\ codes'[ver[p].codeRow].used
                /\ AllUsed(codes', ver[p].email, ver[p].code)
        /\ (LookupAnswered(p) /\ AllUsed(codes, ver[p].email, ver[p].code)) =>
                /\ response'.status = 400
                /\ response'.error = Invalid
                /\ StoreUntouched]_vars

\* The code was taken and nobody has an account: a retry finds no unused row.
C24_Witness ==
    /\ response.handler = "verify"
    /\ response.status = 400
    /\ response.error = "Failed to create user"
    /\ response.row \in 1..Len(codes)
    /\ codes[response.row].used
    /\ redeemed[response.row] = 0
    /\ SelectUnused(response.email, response.code) = {}
    /\ users = {}
    /\ profiles = {}

\* C26: verify-code goes on with the unused row it took exactly when the
\* row's expires_at >= now, the instant of expiry included, and answers
\* expired exactly when expires_at < now; a row is inserted with expires_at =
\* issuance time + 1 hour, so it is taken up to and including that instant.
C26_ExpiryBoundary ==
    [][/\ \A p \in Verifiers :
            (LookupAnswered(p) /\ TakenRow(p) \in 1..Len(codes)) =>
                LET expiresAt == codes[TakenRow(p)].expires_at.iso IN
                /\ (expiresAt >= clock) <=> (ver'[p].pc = "mark" /\ response' = NoResponse)
                /\ (expiresAt < clock) <=> (ver'[p].pc = "idle" /\ response'.error = Expired)
       /\ Len(codes') > Len(codes) =>
            \E p \in Issuers :
                /\ gen[p].pc = "insert"
                /\ gen[p].now \in Instants
                /\ codes'[Len(codes')].expires_at.iso = gen[p].now + 60 * 60 * 1000]_vars

\* A code issued at 0 and presented exactly one hour later has been accepted.
C26_Witness ==
    \E p \in Verifiers :
        /\ ver[p].pc = "mark"
        /\ ver[p].codeRow \in 1..Len(codes)
        /\ codes[ver[p].codeRow].expires_at.iso = clock
        /\ ver[p].now = clock
        /\ clock = 60 * 60 * 1000

\* The price-ID text has just taken up a POST whose body is a JSON object.
PriceSelected ==
    /\ co.pc = "idle"
    /\ \/ co'.pc = "stripe" /\ co'.variant = "priceId"
       \/ /\ co'.pc = "idle" /\ response'.handler = "create-checkout-session"
          /\ response'.variant = "priceId" /\ response'.method = "POST"
          /\ response'.json = "object"

C27_MethodGuard ==
    [][/\ \A p \in Verifiers : ver'[p].pc # "idle" => ver'[p].method = "POST"
       /\ \A p \in Issuers : gen'[p].pc # "idle" => gen'[p].method = "POST"
       /\ fb'.pc # "idle" => fb'.method = "POST"
       /\ co'.pc # "idle" => co'.method = "POST"
       /\ (response'.handler # "" /\ response'.method # "POST") =>
            /\ response'.status = 405
            /\ response'.attempts = <<>>
            /\ response'.sent = 0
            /\ ver' = ver /\ gen' = gen /\ fb' = fb /\ co' = co
            /\ \A p \in Verifiers : ver[p].pc = "idle"
            /\ \A p \in Issuers : gen[p].pc = "idle"
            /\ fb.pc = "idle" /\ co.pc = "idle"
            /\ StoreUntouched
            /\ stripe' = stripe]_vars

\* A GET to create-checkout-session was answered 405 beside a store that holds
\* a code and a Stripe that was sent a request before.
C27_Witness ==
    /\ response.handler = "create-checkout-session"
    /\ response.method = "GET"
    /\ response.status = 405
    /\ codes # <<>>
    /\ stripe # <<>>
====
